---- MODULE Spec2Model ----
(***************************************************************************)
(* Model of the rustetris game session (components/gamebox.rs): the        *)
(* GameInfo aggregate behind one Mutex, start_game / end_game, and the     *)
(* tick and render closures that start_game launches with spawn_local.     *)
(*                                                                         *)
(* Granularity.  A closure of an IntervalStream runs from its lock() to    *)
(* the drop of the guard; the model follows it statement by statement      *)
(* (tickPc, renderPc) while the guard is in `lock`.  start_game is         *)
(* synchronous code with several short lock acquisitions; callerPc is its  *)
(* position.  A loop closure starts only when the caller is not inside     *)
(* start_game (no await there) and the Mutex is free.                      *)
(*                                                                         *)
(* Not modelled: a poisoned Mutex (the `?` and unwrap() exits); no code    *)
(* path panics while a guard is alive.                                     *)
(*                                                                         *)
(* Variables lastOp, pre, preLoops, drawn, committed, rendered, ticked,    *)
(* starts, drawLog and renderHist are                                      *)
(* history variables: they record what an operation saw and did, and no    *)
(* guard of the program reads them.                                        *)
(***************************************************************************)
EXTENDS Integers, Sequences, FiniteSets, TLC

VARIABLES
    game_info,    \* the GameInfo inside Arc<Mutex<..>>
    lock,         \* set of tasks holding a MutexGuard of game_info
    callerPc,     \* position of the UI caller inside start_game
    tickPc,       \* position of the running tick closure
    renderPc,     \* position of the running render closure
    mino,         \* local `mino` of the tick closure
    point,        \* local `point` of the tick closure
    tickLoops,    \* tick tasks: [new |-> spawned, live |-> streaming]
    renderLoops,  \* render tasks, same shape
    lastOp,       \* history: operation completed last ("busy" while one runs)
    pre,          \* history: game_info when the current/last operation began
    preLoops,     \* history: loop counts when the current/last operation began
    drawn,        \* history: piece the current/last tick step drew, or "None"
    committed,    \* history: board at the end of the last completed critical section
    rendered,     \* history: arguments of the render call of the current/last render step
    ticked,       \* history: a tick step began since the last start_game returned
    starts,       \* history: number of start_game calls that returned
    drawLog,      \* history: the pieces get_mino returned, in order
    renderHist,   \* history: during a render step, the previous render step
    probe         \* input and results of the TetrisCell conversions (SpecCell)

vars == <<game_info, lock, callerPc, tickPc, renderPc, mino, point, tickLoops,
          renderLoops, lastOp, pre, preLoops, drawn, committed, rendered, ticked,
          starts, drawLog, renderHist, probe>>

----------------------------------------------------------------------------
(* Bounds *)

MaxCols == 6      \* option.column_count
MaxRows == 2      \* option.row_count is 1 or MaxRows
MaxStarts == 2    \* number of start_game calls explored
MaxStride == 1    \* shuffles explored per refill: strides 1..MaxStride over 7 seeds
MaxCode == 20     \* integers decoded by try_from: -MaxCode..MaxCode
MaxDraws == 14    \* consecutive get_mino calls explored (SpecBag)

----------------------------------------------------------------------------
(* TetrisCell *)

Empty == "Empty"
Ghost == "Ghost"
Red == "Red"
Green == "Green"
Blue == "Blue"
Purple == "Purple"
Cyan == "Cyan"
Orange == "Orange"
Yellow == "Yellow"

TetrisCell == {Empty, Ghost, Red, Green, Blue, Purple, Cyan, Orange, Yellow}

\* variant of into_code: the codes follow the order of declaration
into_codeDeclared(c) ==
    CASE c = Empty  -> 0
      [] c = Ghost  -> 1
      [] c = Red    -> 2
      [] c = Green  -> 3
      [] c = Blue   -> 4
      [] c = Purple -> 5
      [] c = Cyan   -> 6
      [] c = Orange -> 7
      [] c = Yellow -> 8
      [] OTHER      -> 0

into_code(c) ==
    CASE c = Empty  -> 0
      [] c = Red    -> 1
      [] c = Green  -> 2
      [] c = Blue   -> 3
      [] c = Purple -> 4
      [] c = Cyan   -> 5
      [] c = Orange -> 6
      [] c = Yellow -> 7
      [] c = Ghost  -> 8
      [] OTHER      -> 0

is_empty(c) == c = Empty

\* impl Default for TetrisCell
default_cell == Empty

\* the Err(()) of TryFrom<i32>
Err == "Err"

\* impl TryFrom<i32> for TetrisCell: the cell of Ok(cell), or Err
try_from(value) ==
    CASE value = 0 -> Empty
      [] value = 1 -> Red
      [] value = 2 -> Green
      [] value = 3 -> Blue
      [] value = 4 -> Purple
      [] value = 5 -> Cyan
      [] value = 6 -> Orange
      [] value = 7 -> Yellow
      [] value = 8 -> Ghost
      [] OTHER     -> Err

----------------------------------------------------------------------------
(* Piece catalog, spawn position, validator, board operations.            *)
(* minos::shapes, Point, util::valid_mino, TetrisBoard::spawn_mino/unfold  *)
(* and GameInfo::get_mino are called by gamebox.rs but their sources are   *)
(* not part of the source tree at hand; they follow the design document    *)
(* (sections 3, 4.1, 4.3, 4.4).                                            *)

None == "None"

mino_list == <<"I", "L", "J", "S", "Z", "O", "T">>

Minos == {mino_list[i] : i \in 1..Len(mino_list)}

\* footprint matrix of a shape: a sequence of rows of cells
Footprint(m) ==
    CASE m = "I" -> << <<Cyan, Cyan, Cyan, Cyan>> >>
      [] m = "J" -> << <<Blue, Empty, Empty>>, <<Blue, Blue, Blue>> >>
      [] m = "L" -> << <<Empty, Empty, Orange>>, <<Orange, Orange, Orange>> >>
      [] m = "O" -> << <<Yellow, Yellow>>, <<Yellow, Yellow>> >>
      [] m = "S" -> << <<Empty, Green, Green>>, <<Green, Green, Empty>> >>
      [] m = "T" -> << <<Empty, Purple, Empty>>, <<Purple, Purple, Purple>> >>
      [] m = "Z" -> << <<Red, Red, Empty>>, <<Empty, Red, Red>> >>

\* occupied cells of a shape at a position: [x, y, cell]
Occupied(m, p) ==
    LET f == Footprint(m) IN
    { [x |-> p.x + j - 1, y |-> p.y + i - 1, cell |-> f[i][j]] :
        <<i, j>> \in { ij \in (1..Len(f)) \X (1..4) :
                         /\ ij[2] <= Len(f[ij[1]])
                         /\ ~is_empty(f[ij[1]][ij[2]]) } }

\* Point::default
DefaultPoint == [x |-> 0, y |-> 0]

\* Point::start_point: horizontally centred, top row
start_point(column_count) == [x |-> (column_count \div 2) - 2, y |-> 0]

\* util::valid_mino
valid_mino(board, m, p) ==
    \A o \in Occupied(m, p) :
        /\ o.x >= 0 /\ o.x < board.column_count
        /\ o.y >= 0 /\ o.y < board.row_count
        /\ is_empty(board.cells[o.y][o.x])

\* TetrisBoard::spawn_mino
spawn_mino(board, m, p) ==
    [board EXCEPT !.cells =
        [y \in 0..(board.row_count - 1) |->
            [x \in 0..(board.column_count - 1) |->
                IF \E o \in Occupied(m, p) : o.x = x /\ o.y = y
                THEN (CHOOSE o \in Occupied(m, p) : o.x = x /\ o.y = y).cell
                ELSE board.cells[y][x]]]]

\* TetrisBoard::unfold: row-major integer codes
unfold(board) ==
    [k \in 1..(board.row_count * board.column_count) |->
        into_code(board.cells[(k - 1) \div board.column_count]
                             [(k - 1) % board.column_count])]

\* vec![vec![TetrisCell::Empty; column_count]; row_count]
EmptyCells(column_count, row_count) ==
    [y \in 0..(row_count - 1) |-> [x \in 0..(column_count - 1) |-> Empty]]

----------------------------------------------------------------------------
(* Bag *)

\* one refill: 7 pieces, piece i is mino_list[(seed + i*stride) mod 7]
Shuffle(seed, stride) ==
    [i \in 1..Len(mino_list) |->
        mino_list[((seed + (i - 1) * stride) % Len(mino_list)) + 1]]

\* variant of Refills: bag_mode is ignored, every refill may repeat shapes
RefillsAnyMode(bag_mode) ==
    { Shuffle(seed, stride) :
        seed \in 0..(Len(mino_list) - 1), stride \in 0..MaxStride }

\* refills the randomizer may produce: bag_mode = true gives permutations of
\* the catalog, bag_mode = false also gives sequences with repeats
Refills(bag_mode) ==
    { Shuffle(seed, stride) :
        seed \in 0..(Len(mino_list) - 1),
        stride \in { k \in 0..MaxStride :
                       bag_mode => k % Len(mino_list) # 0 } }

\* variant of get_mino: nothing is refilled when both queues are empty
get_minoNoRefill(gi) ==
    IF gi.current_bag # <<>>
    THEN { [mino |-> Head(gi.current_bag),
            current_bag |-> Tail(gi.current_bag),
            next_bag |-> gi.next_bag] }
    ELSE { [mino |-> Head(c), current_bag |-> Tail(c), next_bag |-> n] :
             c \in (IF gi.next_bag # <<>> THEN {gi.next_bag} ELSE {}),
             n \in Refills(gi.bag_mode) }

\* GameInfo::get_mino: the possible results [mino, current_bag, next_bag]
get_mino(gi) ==
    IF gi.current_bag # <<>>
    THEN { [mino |-> Head(gi.current_bag),
            current_bag |-> Tail(gi.current_bag),
            next_bag |-> gi.next_bag] }
    ELSE { [mino |-> Head(c), current_bag |-> Tail(c), next_bag |-> n] :
             c \in (IF gi.next_bag # <<>> THEN {gi.next_bag}
                    ELSE Refills(gi.bag_mode)),
             n \in Refills(gi.bag_mode) }

----------------------------------------------------------------------------
(* Construction *)

\* GameOption values explored (column_count, row_count, bag_mode); the pixel
\* extents are those of the canvas the component declares
GameOptions ==
    [column_count : {MaxCols}, row_count : {1, MaxRows},
     board_width : {300}, board_height : {600}, bag_mode : BOOLEAN]

\* Model::with_option
with_option(option) ==
    [game_score |-> 0,
     render_interval |-> 100,
     tick_interval |-> 1000,
     current_position |-> DefaultPoint,
     current_mino |-> None,
     freezed |-> FALSE,
     current_bag |-> <<>>,
     next_bag |-> <<>>,
     tetris_board |->
        [cells |-> EmptyCells(option.column_count, option.row_count),
         column_count |-> option.column_count,
         row_count |-> option.row_count,
         board_height |-> option.board_height,
         board_width |-> option.board_width],
     on_play |-> FALSE,
     lose |-> FALSE,
     tick_interval_handler |-> None,
     render_interval_handler |-> None,
     bag_mode |-> option.bag_mode,
     mino_list |-> mino_list]

NoLoops == [new |-> 0, live |-> 0]

\* tasks of a kind that were spawned and never stopped
Running(loops) == loops.new + loops.live

NoRender == [calls |-> 0, args |-> <<>>]

\* how many tasks of each kind exist
Loops == [tick |-> Running(tickLoops), render |-> Running(renderLoops)]

\* kept while a render step is under way: prev is the call of the previous
\* render step, same tells that the operation completed last before this
\* step was that previous render step (no tick step, start_game or end_game
\* between the two)
NoRenderHist == [prev |-> NoRender, same |-> FALSE]

NoProbe == [stage |-> "none"]

Init ==
    /\ \E option \in GameOptions : game_info = with_option(option)
    /\ lock = {}
    /\ callerPc = "idle"
    /\ tickPc = "wait"
    /\ renderPc = "wait"
    /\ mino = None
    /\ point = DefaultPoint
    /\ tickLoops = NoLoops
    /\ renderLoops = NoLoops
    /\ lastOp = "none"
    /\ pre = game_info
    /\ preLoops = [tick |-> 0, render |-> 0]
    /\ drawn = None
    /\ committed = game_info.tetris_board.cells
    /\ rendered = NoRender
    /\ ticked = FALSE
    /\ starts = 0
    /\ drawLog = <<>>
    /\ renderHist = NoRenderHist
    /\ probe = NoProbe

----------------------------------------------------------------------------
(* Scheduling *)

\* Mutex::lock succeeds for a task only while no guard is alive
MutexFree == lock = {}

\* variant of CallerIdle: start_game yields to the executor between its
\* statements
CallerAlwaysIdle == TRUE

\* start_game has no await: no spawned task is polled while it runs
CallerIdle == callerPc = "idle"

\* the caller's own code starts only between closures: a closure never yields
ClosuresIdle == tickPc = "wait" /\ renderPc = "wait"

----------------------------------------------------------------------------
(* start_game and end_game *)

\* variant of StartInitBag: init_bag clears current_bag only
StartInitBagKeepsNext ==
    /\ CallerIdle /\ ClosuresIdle /\ MutexFree
    /\ tickLoops.new + tickLoops.live < MaxStarts
    /\ game_info' = [game_info EXCEPT !.current_bag = <<>>]
    /\ callerPc' = "init_board"
    /\ lastOp' = "busy"
    /\ pre' = game_info
    /\ preLoops' = Loops
    /\ UNCHANGED <<lock, tickPc, renderPc, mino, point, tickLoops, renderLoops,
                   drawn, committed, rendered, ticked,
                   starts, drawLog, renderHist, probe>>

\* init_bag, first statement of init_game, first statement of start_game
StartInitBag ==
    /\ CallerIdle /\ ClosuresIdle /\ MutexFree
    /\ tickLoops.new + tickLoops.live < MaxStarts
    /\ game_info' = [game_info EXCEPT !.current_bag = <<>>, !.next_bag = <<>>]
    /\ callerPc' = "init_board"
    /\ lastOp' = "busy"
    /\ pre' = game_info
    /\ preLoops' = Loops
    /\ UNCHANGED <<lock, tickPc, renderPc, mino, point, tickLoops, renderLoops,
                   drawn, committed, rendered, ticked,
                   starts, drawLog, renderHist, probe>>

\* variant of StartInitBoard: the recorded piece is reset with the board
StartInitBoardResetsPiece ==
    /\ callerPc = "init_board" /\ MutexFree
    /\ LET column_count == game_info.tetris_board.column_count
           row_count == game_info.tetris_board.row_count
       IN  /\ game_info' = [game_info EXCEPT !.tetris_board =
                [cells |-> EmptyCells(column_count, row_count),
                 row_count |-> row_count,
                 column_count |-> column_count,
                 board_height |-> game_info.tetris_board.board_height,
                 board_width |-> game_info.tetris_board.board_width],
                                          !.current_mino = None]
    /\ committed' = game_info'.tetris_board.cells
    /\ callerPc' = "init_score"
    /\ UNCHANGED <<lock, tickPc, renderPc, mino, point, tickLoops, renderLoops,
                   lastOp, pre, preLoops, drawn, rendered, ticked,
                   starts, drawLog, renderHist, probe>>

\* init_board
StartInitBoard ==
    /\ callerPc = "init_board" /\ MutexFree
    /\ LET column_count == game_info.tetris_board.column_count
           row_count == game_info.tetris_board.row_count
       IN  /\ game_info' = [game_info EXCEPT !.tetris_board =
                [cells |-> EmptyCells(column_count, row_count),
                 row_count |-> row_count,
                 column_count |-> column_count,
                 board_height |-> game_info.tetris_board.board_height,
                 board_width |-> game_info.tetris_board.board_width]]
    /\ committed' = game_info'.tetris_board.cells
    /\ callerPc' = "init_score"
    /\ UNCHANGED <<lock, tickPc, renderPc, mino, point, tickLoops, renderLoops,
                   lastOp, pre, preLoops, drawn, rendered, ticked,
                   starts, drawLog, renderHist, probe>>

\* init_score
StartInitScore ==
    /\ callerPc = "init_score" /\ MutexFree
    /\ game_info' = [game_info EXCEPT !.game_score = 0]
    /\ callerPc' = "on_play"
    /\ UNCHANGED <<lock, tickPc, renderPc, mino, point, tickLoops, renderLoops,
                   lastOp, pre, preLoops, drawn, committed, rendered, ticked,
                   starts, drawLog, renderHist, probe>>

\* self.game_info.lock().ok()?.on_play = true
StartOnPlay ==
    /\ callerPc = "on_play" /\ MutexFree
    /\ game_info' = [game_info EXCEPT !.on_play = TRUE]
    /\ callerPc' = "lose"
    /\ UNCHANGED <<lock, tickPc, renderPc, mino, point, tickLoops, renderLoops,
                   lastOp, pre, preLoops, drawn, committed, rendered, ticked,
                   starts, drawLog, renderHist, probe>>

\* variant of StartLose: start_game returns without clearing lose
StartLoseKept ==
    /\ callerPc = "lose" /\ MutexFree
    /\ callerPc' = "spawn"
    /\ UNCHANGED <<game_info, lock, tickPc, renderPc, mino, point, tickLoops,
                   renderLoops, lastOp, pre, preLoops, drawn, committed,
                   rendered, ticked,
                   starts, drawLog, renderHist, probe>>

\* self.game_info.lock().ok()?.lose = false
StartLose ==
    /\ callerPc = "lose" /\ MutexFree
    /\ game_info' = [game_info EXCEPT !.lose = FALSE]
    /\ callerPc' = "spawn"
    /\ UNCHANGED <<lock, tickPc, renderPc, mino, point, tickLoops, renderLoops,
                   lastOp, pre, preLoops, drawn, committed, rendered, ticked,
                   starts, drawLog, renderHist, probe>>

\* variant of StartSpawn: tasks are spawned only when none is running
StartSpawnOnce ==
    /\ callerPc = "spawn"
    /\ tickLoops' = IF tickLoops.new + tickLoops.live = 0
                    THEN [tickLoops EXCEPT !.new = @ + 1] ELSE tickLoops
    /\ renderLoops' = IF renderLoops.new + renderLoops.live = 0
                      THEN [renderLoops EXCEPT !.new = @ + 1] ELSE renderLoops
    /\ callerPc' = "idle"
    /\ lastOp' = "start"
    /\ ticked' = FALSE
    /\ starts' = starts + 1
    /\ UNCHANGED <<game_info, lock, tickPc, renderPc, mino, point, pre,
                   preLoops, drawn, committed, rendered,
                   drawLog, renderHist, probe>>

\* the two spawn_local calls, then return Some(())
StartSpawn ==
    /\ callerPc = "spawn"
    /\ tickLoops' = [tickLoops EXCEPT !.new = @ + 1]
    /\ renderLoops' = [renderLoops EXCEPT !.new = @ + 1]
    /\ callerPc' = "idle"
    /\ lastOp' = "start"
    /\ ticked' = FALSE
    /\ starts' = starts + 1
    /\ UNCHANGED <<game_info, lock, tickPc, renderPc, mino, point, pre,
                   preLoops, drawn, committed, rendered,
                   drawLog, renderHist, probe>>

\* variant of EndGame: end_game also clears lose
EndGameClearsLose ==
    /\ CallerIdle /\ ClosuresIdle /\ MutexFree
    /\ game_info' = [game_info EXCEPT !.on_play = FALSE, !.lose = FALSE]
    /\ lastOp' = "end"
    /\ pre' = game_info
    /\ preLoops' = Loops
    /\ UNCHANGED <<lock, callerPc, tickPc, renderPc, mino, point, tickLoops,
                   renderLoops, drawn, committed, rendered, ticked,
                   starts, drawLog, renderHist, probe>>

\* end_game
EndGame ==
    /\ CallerIdle /\ ClosuresIdle /\ MutexFree
    /\ game_info' = [game_info EXCEPT !.on_play = FALSE]
    /\ lastOp' = "end"
    /\ pre' = game_info
    /\ preLoops' = Loops
    /\ UNCHANGED <<lock, callerPc, tickPc, renderPc, mino, point, tickLoops,
                   renderLoops, drawn, committed, rendered, ticked,
                   starts, drawLog, renderHist, probe>>

----------------------------------------------------------------------------
(* Tick task *)

\* first poll of the spawned task: reads tick_interval, builds the stream
TickLoopInit ==
    /\ CallerIdle /\ MutexFree
    /\ tickLoops.new > 0
    /\ tickLoops' = [new |-> tickLoops.new - 1, live |-> tickLoops.live + 1]
    /\ UNCHANGED <<game_info, lock, callerPc, tickPc, renderPc, mino, point,
                   renderLoops, lastOp, pre, preLoops, drawn, committed,
                   rendered, ticked,
                   starts, drawLog, renderHist, probe>>

\* let mut game_info = game_info.lock().unwrap()
TickAcquire ==
    /\ CallerIdle /\ MutexFree
    /\ tickLoops.live > 0
    /\ tickPc = "wait"
    /\ lock' = lock \cup {"tick"}
    /\ tickPc' = "match"
    /\ lastOp' = "busy"
    /\ pre' = game_info
    /\ preLoops' = Loops
    /\ drawn' = None
    /\ ticked' = TRUE
    /\ UNCHANGED <<game_info, callerPc, renderPc, mino, point, tickLoops,
                   renderLoops, committed, rendered,
                   starts, drawLog, renderHist, probe>>

\* variant of TickMatch: the Some arm falls through to the draw
TickMatchAlwaysDraws ==
    /\ tickPc = "match"
    /\ tickPc' = "draw"
    /\ UNCHANGED <<game_info, lock, callerPc, renderPc, mino, point, tickLoops,
                   renderLoops, lastOp, pre, preLoops, drawn, committed,
                   rendered, ticked,
                   starts, drawLog, renderHist, probe>>

\* match current_mino
TickMatch ==
    /\ tickPc = "match"
    /\ tickPc' = IF game_info.current_mino # None THEN "release" ELSE "draw"
    /\ UNCHANGED <<game_info, lock, callerPc, renderPc, mino, point, tickLoops,
                   renderLoops, lastOp, pre, preLoops, drawn, committed,
                   rendered, ticked,
                   starts, drawLog, renderHist, probe>>

\* let mino = game_info.get_mino(); game_info.current_mino = Some(mino)
TickDraw ==
    /\ tickPc = "draw"
    /\ \E r \in get_mino(game_info) :
        /\ mino' = r.mino
        /\ drawn' = r.mino
        /\ drawLog' = Append(drawLog, r.mino)
        /\ game_info' = [game_info EXCEPT !.current_bag = r.current_bag,
                                          !.next_bag = r.next_bag,
                                          !.current_mino = r.mino]
    /\ tickPc' = "point"
    /\ UNCHANGED <<lock, callerPc, renderPc, point, tickLoops, renderLoops,
                   lastOp, pre, preLoops, committed, rendered, ticked,
                   starts, renderHist, probe>>

\* variant of TickPoint: the spawn point is computed but not recorded
TickPointUnrecorded ==
    /\ tickPc = "point"
    /\ point' = start_point(game_info.tetris_board.column_count)
    /\ tickPc' = "valid"
    /\ UNCHANGED <<game_info, lock, callerPc, renderPc, mino, tickLoops,
                   renderLoops, lastOp, pre, preLoops, drawn, committed,
                   rendered, ticked,
                   starts, drawLog, renderHist, probe>>

\* let point = Point::start_point(..); game_info.current_position = point
TickPoint ==
    /\ tickPc = "point"
    /\ point' = start_point(game_info.tetris_board.column_count)
    /\ game_info' = [game_info EXCEPT !.current_position = point']
    /\ tickPc' = "valid"
    /\ UNCHANGED <<lock, callerPc, renderPc, mino, tickLoops, renderLoops,
                   lastOp, pre, preLoops, drawn, committed, rendered, ticked,
                   starts, drawLog, renderHist, probe>>

\* variant of TickValid: the validity test is inverted
TickValidInverted ==
    /\ tickPc = "valid"
    /\ game_info' =
         IF valid_mino(game_info.tetris_board, mino, point)
         THEN [game_info EXCEPT !.on_play = FALSE, !.lose = TRUE]
         ELSE [game_info EXCEPT !.tetris_board =
                                   spawn_mino(game_info.tetris_board, mino, point)]
    /\ tickPc' = "release"
    /\ UNCHANGED <<lock, callerPc, renderPc, mino, point, tickLoops,
                   renderLoops, lastOp, pre, preLoops, drawn, committed,
                   rendered, ticked,
                   starts, drawLog, renderHist, probe>>

\* if !valid_mino(..) { on_play = false; lose = true } else { spawn_mino(..) }
TickValid ==
    /\ tickPc = "valid"
    /\ game_info' =
         IF ~valid_mino(game_info.tetris_board, mino, point)
         THEN [game_info EXCEPT !.on_play = FALSE, !.lose = TRUE]
         ELSE [game_info EXCEPT !.tetris_board =
                                   spawn_mino(game_info.tetris_board, mino, point)]
    /\ tickPc' = "release"
    /\ UNCHANGED <<lock, callerPc, renderPc, mino, point, tickLoops,
                   renderLoops, lastOp, pre, preLoops, drawn, committed,
                   rendered, ticked,
                   starts, drawLog, renderHist, probe>>

\* variant of TickRelease: the closure ends but its guard stays alive
TickReleaseKeepsGuard ==
    /\ tickPc = "release"
    /\ tickPc' = "wait"
    /\ mino' = None
    /\ point' = DefaultPoint
    /\ lastOp' = "tick"
    /\ committed' = game_info.tetris_board.cells
    /\ UNCHANGED <<game_info, lock, callerPc, renderPc, tickLoops, renderLoops, pre,
                   preLoops, drawn, rendered, ticked,
                   starts, drawLog, renderHist, probe>>

\* end of the closure: the guard is dropped
TickRelease ==
    /\ tickPc = "release"
    /\ lock' = lock \ {"tick"}
    /\ tickPc' = "wait"
    /\ mino' = None
    /\ point' = DefaultPoint
    /\ lastOp' = "tick"
    /\ committed' = game_info.tetris_board.cells
    /\ UNCHANGED <<game_info, callerPc, renderPc, tickLoops, renderLoops, pre,
                   preLoops, drawn, rendered, ticked,
                   starts, drawLog, renderHist, probe>>

----------------------------------------------------------------------------
(* Render task *)

\* first poll of the spawned task: reads render_interval, builds the stream
RenderLoopInit ==
    /\ CallerIdle /\ MutexFree
    /\ renderLoops.new > 0
    /\ renderLoops' = [new |-> renderLoops.new - 1, live |-> renderLoops.live + 1]
    /\ UNCHANGED <<game_info, lock, callerPc, tickPc, renderPc, mino, point,
                   tickLoops, lastOp, pre, preLoops, drawn, committed,
                   rendered, ticked,
                   starts, drawLog, renderHist, probe>>

\* variant of RenderAcquire: the closure reads the session without waiting
\* for the Mutex
RenderAcquireNoLock ==
    /\ CallerIdle
    /\ renderLoops.live > 0
    /\ renderPc = "wait"
    /\ lock' = lock \cup {"render"}
    /\ renderPc' = "check"
    /\ lastOp' = "busy"
    /\ pre' = game_info
    /\ preLoops' = Loops
    /\ rendered' = NoRender
    /\ renderHist' = IF lastOp = "render"
                     THEN [prev |-> rendered, same |-> TRUE]
                     ELSE NoRenderHist
    /\ UNCHANGED <<game_info, callerPc, tickPc, mino, point, tickLoops,
                   renderLoops, drawn, committed, ticked,
                   starts, drawLog, probe>>

\* let game_info = game_info.lock().unwrap()
RenderAcquire ==
    /\ CallerIdle /\ MutexFree
    /\ renderLoops.live > 0
    /\ renderPc = "wait"
    /\ lock' = lock \cup {"render"}
    /\ renderPc' = "check"
    /\ lastOp' = "busy"
    /\ pre' = game_info
    /\ preLoops' = Loops
    /\ rendered' = NoRender
    /\ renderHist' = IF lastOp = "render"
                     THEN [prev |-> rendered, same |-> TRUE]
                     ELSE NoRenderHist
    /\ UNCHANGED <<game_info, callerPc, tickPc, mino, point, tickLoops,
                   renderLoops, drawn, committed, ticked,
                   starts, drawLog, probe>>

\* variant of RenderCheck: the renderer is called whatever on_play is
RenderCheckAlways ==
    /\ renderPc = "check"
    /\ rendered' =
         [calls |-> rendered.calls + 1,
          args |-> <<[cells |-> unfold(game_info.tetris_board),
                      board_width |-> game_info.tetris_board.board_width,
                      board_height |-> game_info.tetris_board.board_height,
                      column_count |-> game_info.tetris_board.column_count,
                      row_count |-> game_info.tetris_board.row_count,
                      base |-> committed]>>]
    /\ renderPc' = "release"
    /\ UNCHANGED <<game_info, lock, callerPc, tickPc, mino, point, tickLoops,
                   renderLoops, lastOp, pre, preLoops, drawn, committed, ticked,
                   starts, drawLog, renderHist, probe>>

\* variant of RenderCheck: the board is moved out of the session into the
\* render call, an empty one is left behind
RenderCheckTakesBoard ==
    /\ renderPc = "check"
    /\ rendered' =
         IF game_info.on_play
         THEN [calls |-> rendered.calls + 1,
               args |-> <<[cells |-> unfold(game_info.tetris_board),
                           board_width |-> game_info.tetris_board.board_width,
                           board_height |-> game_info.tetris_board.board_height,
                           column_count |-> game_info.tetris_board.column_count,
                           row_count |-> game_info.tetris_board.row_count,
                           base |-> committed]>>]
         ELSE rendered
    /\ game_info' =
         IF game_info.on_play
         THEN [game_info EXCEPT !.tetris_board.cells =
                  EmptyCells(game_info.tetris_board.column_count,
                             game_info.tetris_board.row_count)]
         ELSE game_info
    /\ renderPc' = "release"
    /\ UNCHANGED <<lock, callerPc, tickPc, mino, point, tickLoops,
                   renderLoops, lastOp, pre, preLoops, drawn, committed, ticked,
                   starts, drawLog, renderHist, probe>>

\* if game_info.on_play { wasm_bind::render(..) }
RenderCheck ==
    /\ renderPc = "check"
    /\ rendered' =
         IF game_info.on_play
         THEN [calls |-> rendered.calls + 1,
               args |-> <<[cells |-> unfold(game_info.tetris_board),
                           board_width |-> game_info.tetris_board.board_width,
                           board_height |-> game_info.tetris_board.board_height,
                           column_count |-> game_info.tetris_board.column_count,
                           row_count |-> game_info.tetris_board.row_count,
                           base |-> committed]>>]
         ELSE rendered
    /\ renderPc' = "release"
    /\ UNCHANGED <<game_info, lock, callerPc, tickPc, mino, point, tickLoops,
                   renderLoops, lastOp, pre, preLoops, drawn, committed, ticked,
                   starts, drawLog, renderHist, probe>>

\* end of the closure: the guard is dropped
RenderRelease ==
    /\ renderPc = "release"
    /\ lock' = lock \ {"render"}
    /\ renderPc' = "wait"
    /\ lastOp' = "render"
    /\ renderHist' = NoRenderHist
    /\ UNCHANGED <<game_info, callerPc, tickPc, mino, point, tickLoops,
                   renderLoops, pre, preLoops, drawn, committed, rendered,
                   ticked,
                   starts, drawLog, probe>>

----------------------------------------------------------------------------

Next ==
    \/ StartInitBag \/ StartInitBoard \/ StartInitScore \/ StartOnPlay
    \/ StartLose \/ StartSpawn \/ EndGame
    \/ TickLoopInit \/ TickAcquire \/ TickMatch \/ TickDraw \/ TickPoint
    \/ TickValid \/ TickRelease
    \/ RenderLoopInit \/ RenderAcquire \/ RenderCheck \/ RenderRelease

Spec == Init /\ [][Next]_vars

----------------------------------------------------------------------------
(* Scheduling guarantees.  Synchronous code runs on: a step inside          *)
(* start_game or inside a closure is taken once it is possible.  An        *)
(* IntervalStream fires again and again and the executor polls every       *)
(* spawned task, so a closure that can start infinitely often does start.  *)
(* The UI caller is under no obligation to call start_game or end_game.    *)

RunOn ==
    \/ StartInitBoard \/ StartInitScore \/ StartOnPlay \/ StartLose \/ StartSpawn
    \/ TickMatch \/ TickDraw \/ TickPoint \/ TickValid \/ TickRelease
    \/ RenderCheck \/ RenderRelease

Fairness ==
    /\ WF_vars(RunOn)
    /\ SF_vars(TickLoopInit) /\ SF_vars(TickAcquire)
    /\ SF_vars(RenderLoopInit) /\ SF_vars(RenderAcquire)

\* the session constructed with 7-bag sequencing
InitSevenBag == Init /\ game_info.bag_mode

FairSpec == InitSevenBag /\ [][Next]_vars /\ Fairness

----------------------------------------------------------------------------
(* TetrisCell conversions on their own: the session stays as constructed *)

session == <<game_info, lock, callerPc, tickPc, renderPc, mino, point,
             tickLoops, renderLoops, lastOp, pre, preLoops, drawn, committed,
             rendered, ticked, starts, drawLog, renderHist>>

\* an i32 to decode, or a variant to encode
InitCell ==
    /\ \E option \in GameOptions :
         /\ option.row_count = 1 /\ option.bag_mode
         /\ game_info = with_option(option)
    /\ lock = {} /\ callerPc = "idle" /\ tickPc = "wait" /\ renderPc = "wait"
    /\ mino = None /\ point = DefaultPoint
    /\ tickLoops = NoLoops /\ renderLoops = NoLoops
    /\ lastOp = "none" /\ pre = game_info
    /\ preLoops = [tick |-> 0, render |-> 0]
    /\ drawn = None /\ committed = game_info.tetris_board.cells
    /\ rendered = NoRender /\ ticked = FALSE
    /\ starts = 0 /\ drawLog = <<>> /\ renderHist = NoRenderHist
    /\ \/ \E value \in (0 - MaxCode)..MaxCode :
            probe = [stage |-> "value", value |-> value]
       \/ \E cell \in TetrisCell :
            probe = [stage |-> "cell", cell |-> cell]

\* TetrisCell::try_from(value)
CellDecode ==
    /\ probe.stage = "value"
    /\ probe' = [stage |-> "decoded", value |-> probe.value,
                 cell |-> try_from(probe.value)]
    /\ UNCHANGED session

\* cell.into_code() on the Ok result of try_from
CellEncodeDecoded ==
    /\ probe.stage = "decoded"
    /\ probe.cell # Err
    /\ probe' = [stage |-> "reencoded", value |-> probe.value,
                 cell |-> probe.cell, code |-> into_code(probe.cell)]
    /\ UNCHANGED session

\* cell.into_code()
CellEncode ==
    /\ probe.stage = "cell"
    /\ probe' = [stage |-> "encoded", cell |-> probe.cell,
                 code |-> into_code(probe.cell)]
    /\ UNCHANGED session

\* TetrisCell::try_from(cell.into_code())
CellDecodeEncoded ==
    /\ probe.stage = "encoded"
    /\ probe' = [stage |-> "redecoded", cell |-> probe.cell,
                 code |-> probe.code, back |-> try_from(probe.code)]
    /\ UNCHANGED session

NextCell == CellDecode \/ CellEncodeDecoded \/ CellEncode \/ CellDecodeEncoded

SpecCell == InitCell /\ [][NextCell]_vars

----------------------------------------------------------------------------
(* The bag on its own: get_mino called again and again on a constructed    *)
(* session, as a caller that always needs a piece would                    *)

BagDraw ==
    /\ Len(drawLog) < MaxDraws
    /\ \E r \in get_mino(game_info) :
        /\ game_info' = [game_info EXCEPT !.current_bag = r.current_bag,
                                          !.next_bag = r.next_bag]
        /\ drawLog' = Append(drawLog, r.mino)
    /\ UNCHANGED <<lock, callerPc, tickPc, renderPc, mino, point, tickLoops,
                   renderLoops, lastOp, pre, preLoops, drawn, committed,
                   rendered, ticked, starts, renderHist, probe>>

NextBag == BagDraw

SpecBag == Init /\ [][NextBag]_vars

----------------------------------------------------------------------------
(* Vocabulary of the properties *)

Cells == game_info.tetris_board.cells

Coords(board) == (0..(board.row_count - 1)) \X (0..(board.column_count - 1))

AllEmpty(board) == \A yx \in Coords(board) : board.cells[yx[1]][yx[2]] = Empty

SpawnPoint == start_point(pre.tetris_board.column_count)

\* no operation is in progress
Quiescent == CallerIdle /\ ClosuresIdle /\ MutexFree

\* the last completed operation is a tick step that found no piece and drew one
TickDrew == lastOp = "tick" /\ pre.current_mino = None /\ drawn # None

\* ... and the drawn piece did not fit at the spawn position
TickFailedSpawn ==
    TickDrew /\ ~valid_mino(pre.tetris_board, drawn, SpawnPoint)

\* ... and the drawn piece did fit
TickSpawned ==
    TickDrew /\ valid_mino(pre.tetris_board, drawn, SpawnPoint)

\* the board shows the footprint of m at p
FootprintOnBoard(board, m, p) ==
    \A o \in Occupied(m, p) :
        /\ <<o.y, o.x>> \in Coords(board)
        /\ board.cells[o.y][o.x] = o.cell

\* outside the footprint of m at p, the two boards agree
SameOutside(board, old, m, p) ==
    \A yx \in Coords(board) :
        (~\E o \in Occupied(m, p) : o.y = yx[1] /\ o.x = yx[2])
            => board.cells[yx[1]][yx[2]] = old.cells[yx[1]][yx[2]]

----------------------------------------------------------------------------
(* Properties *)

\* C1: between operations (no start_game in progress, no closure running,
\* the lock free), lose = true implies on_play = false.
C1_LoseImpliesNotOnPlay ==
    Quiescent => (game_info.lose => ~game_info.on_play)

\* C1 witness: the session is Lost between operations
C1_Witness ==
    Quiescent /\ game_info.lose /\ lastOp = "tick"

\* C2: a tick step that finds current_mino None and draws a piece that is not
\* valid at the spawn position ends with on_play = false, lose = true and
\* every board cell as before.
C2_FailedSpawnLoses ==
    TickFailedSpawn =>
        /\ ~game_info.on_play
        /\ game_info.lose
        /\ Cells = pre.tetris_board.cells

\* C2 witness: such a tick step has run while the game was Playing
C2_Witness ==
    TickFailedSpawn /\ pre.on_play

\* C3: a tick step that fails spawn validation leaves current_mino None and
\* current_position at its previous value.
C3_FailedSpawnLeavesPiece ==
    TickFailedSpawn =>
        /\ game_info.current_mino = None
        /\ game_info.current_position = pre.current_position

\* C4: every start_game call ends with both bag queues empty, every board
\* cell Empty, score 0, on_play = true and lose = false.
C4_StartResets ==
    lastOp = "start" =>
        /\ game_info.current_bag = <<>>
        /\ game_info.next_bag = <<>>
        /\ AllEmpty(game_info.tetris_board)
        /\ game_info.game_score = 0
        /\ game_info.on_play
        /\ ~game_info.lose

\* C4 witness: start_game has returned after a call made in Lost with
\* pieces left in both queues
C4_Witness ==
    /\ lastOp = "start"
    /\ pre.lose /\ ~pre.on_play
    /\ pre.current_bag # <<>> /\ pre.next_bag # <<>>

\* C5: after any start_game call the session is Playing with an all-Empty
\* board and current_mino None, and current_mino stays None until the next
\* tick step runs.
C5_StartLeavesNoPiece ==
    /\ lastOp = "start" =>
          /\ game_info.on_play /\ ~game_info.lose
          /\ AllEmpty(game_info.tetris_board)
          /\ game_info.current_mino = None
    /\ (tickLoops.new + tickLoops.live > 0 /\ CallerIdle /\ ~ticked) =>
          game_info.current_mino = None

\* C6: a tick step that finds current_mino None and draws a piece p valid at
\* the spawn position ends with current_mino = Some(p), current_position the
\* spawn position, p's footprint on the board, every other cell unchanged,
\* and on_play and lose unchanged.
C6_ValidSpawn ==
    TickSpawned =>
        /\ game_info.current_mino = drawn
        /\ game_info.current_position = SpawnPoint
        /\ FootprintOnBoard(game_info.tetris_board, drawn, SpawnPoint)
        /\ SameOutside(game_info.tetris_board, pre.tetris_board, drawn, SpawnPoint)
        /\ game_info.on_play = pre.on_play
        /\ game_info.lose = pre.lose

\* C6 witness: a piece was spawned away from the default position while Playing
C6_Witness ==
    TickSpawned /\ pre.on_play /\ SpawnPoint # pre.current_position

\* C7: a tick step that finds current_mino Some leaves the whole session
\* unchanged and draws nothing; a tick step changes a bag queue only when it
\* found current_mino None.
C7_TickWithPieceIsNoOp ==
    /\ (lastOp = "tick" /\ pre.current_mino # None) =>
          (game_info = pre /\ drawn = None)
    /\ (lastOp = "tick" /\ (game_info.current_bag # pre.current_bag
                            \/ game_info.next_bag # pre.next_bag)) =>
          pre.current_mino = None

\* C7 witness: a tick step has run with a piece recorded and pieces in the bag
C7_Witness ==
    lastOp = "tick" /\ pre.current_mino # None /\ pre.current_bag # <<>>

\* C8: a render step calls the renderer once when on_play is true while it
\* holds the lock and not at all when on_play is false; at every render call
\* on_play is true.
C8_RenderOnlyOnPlay ==
    /\ lastOp = "render" =>
          rendered.calls = (IF pre.on_play THEN 1 ELSE 0)
    /\ (renderPc = "release" /\ rendered.calls > 0) => game_info.on_play
    /\ rendered.calls = Len(rendered.args)

\* C8 witness: a render step ran with on_play false while two render loops
\* were live, and made no call
C8_Witness ==
    lastOp = "render" /\ ~pre.on_play /\ renderLoops.live >= 2

\* C9: end_game sets on_play to false and changes nothing else, stops no
\* loop and leaves tick steps enabled; a tick step taken with on_play false
\* and current_mino None still draws a piece and spawns it or sets lose.
C9_EndGameOnlyClearsOnPlay ==
    /\ lastOp = "end" =>
          /\ game_info = [pre EXCEPT !.on_play = FALSE]
          /\ Running(tickLoops) = preLoops.tick
          /\ Running(renderLoops) = preLoops.render
          /\ (tickLoops.live > 0 => ENABLED TickAcquire)
    /\ (TickDrew /\ ~pre.on_play) =>
          /\ game_info.current_mino = drawn
          /\ \/ /\ FootprintOnBoard(game_info.tetris_board, drawn, SpawnPoint)
                /\ game_info.lose = pre.lose
             \/ /\ game_info.lose
                /\ Cells = pre.tetris_board.cells

\* C9 witness: a tick step drew a piece after end_game had cleared on_play
C9_Witness ==
    TickDrew /\ ~pre.on_play /\ ~pre.lose

\* C10: at most one task holds the session lock, a render step never holds
\* it while a tick step is under way, and the snapshot passed to the
\* renderer is the board as the last completed critical section left it.
C10_StepsAtomic ==
    /\ Cardinality(lock) <= 1
    /\ renderPc # "wait" => tickPc = "wait"
    /\ tickPc # "wait" => renderPc = "wait"
    /\ rendered.args # <<>> =>
          rendered.args[1].cells =
              unfold([game_info.tetris_board EXCEPT
                          !.cells = rendered.args[1].base])

\* C10 witness: a render call passed a board that holds a spawned piece
C10_Witness ==
    /\ rendered.args # <<>>
    /\ \E k \in DOMAIN rendered.args[1].cells : rendered.args[1].cells[k] # 0

\* C11: try_from succeeds exactly on 0..8 and into_code gives the code back;
\* every variant survives into_code followed by try_from; Empty is the
\* default and has code 0; no two variants share a code.
C11_CellCodesRoundTrip ==
    /\ probe.stage = "decoded" =>
          (probe.cell # Err <=> probe.value \in 0..8)
    /\ probe.stage = "decoded" => probe.cell \in TetrisCell \cup {Err}
    /\ probe.stage = "reencoded" => probe.code = probe.value
    /\ probe.stage = "redecoded" => probe.back = probe.cell
    /\ probe.stage \in {"encoded", "redecoded"} => probe.code \in 0..8
    /\ default_cell = Empty /\ into_code(default_cell) = 0
    /\ \A c1, c2 \in TetrisCell : into_code(c1) = into_code(c2) => c1 = c2

\* C11 witness: 8 was decoded to Ghost and encoded back
C11_Witness ==
    probe.stage = "reencoded" /\ probe.value = 8 /\ probe.cell = Ghost

\* C12: a draw never fails: where the tick closure calls get_mino a result
\* exists and is a catalog shape, also with both queues empty; a tick step
\* that found current_mino None always ends with a drawn catalog shape.
C12_DrawNeverFails ==
    /\ tickPc = "draw" =>
          /\ get_mino(game_info) # {}
          /\ \A r \in get_mino(game_info) : r.mino \in Minos
    /\ (lastOp = "tick" /\ pre.current_mino = None) => drawn \in Minos
    /\ \A i \in DOMAIN drawLog : drawLog[i] \in Minos

\* C12 witness: the first tick step after start_game drew from two empty queues
C12_Witness ==
    /\ TickDrew /\ starts = 1
    /\ pre.current_bag = <<>> /\ pre.next_bag = <<>>

\* the draws number from..from+6
Block(from) == {drawLog[i] : i \in from..(from + Len(mino_list) - 1)}

\* C13: with bag_mode = true every seven consecutive draws counted from a
\* fresh refill return each of the seven shapes once, and the draw after
\* them opens a refill that is again a permutation of the seven shapes.
C13_SevenBag ==
    game_info.bag_mode =>
        /\ \A j \in 0..(Len(drawLog) \div Len(mino_list)) :
              (j + 1) * Len(mino_list) <= Len(drawLog) =>
                  Block(j * Len(mino_list) + 1) = Minos
        /\ (Len(drawLog) % Len(mino_list) = 1) =>
              /\ Len(game_info.current_bag) = Len(mino_list) - 1
              /\ {drawLog[Len(drawLog)]}
                    \cup {game_info.current_bag[i] :
                            i \in DOMAIN game_info.current_bag} = Minos

\* C13 witness: eight draws were made in 7-bag mode
C13_Witness ==
    game_info.bag_mode /\ Len(drawLog) = Len(mino_list) + 1

\* C14: after n start_game calls n tick tasks and n render tasks exist,
\* whatever else happened (end_game, Lost, restarts); between operations
\* every spawned task can take its next step.
C14_LoopsAccumulate ==
    /\ Running(tickLoops) = starts
    /\ Running(renderLoops) = starts
    /\ Quiescent =>
          /\ tickLoops.new > 0 => ENABLED TickLoopInit
          /\ tickLoops.live > 0 => ENABLED TickAcquire
          /\ renderLoops.new > 0 => ENABLED RenderLoopInit
          /\ renderLoops.live > 0 => ENABLED RenderAcquire

\* C14 witness: after two start_game calls and an end_game, two tick loops
\* and two render loops stream, and a tick step has just run
C14_Witness ==
    /\ starts = 2
    /\ tickLoops.live = 2 /\ renderLoops.live = 2
    /\ ~game_info.on_play
    /\ lastOp = "tick"

\* the guards alive are exactly those of the closures under way; the caller
\* holds none between its statements
LockHeldByRunning ==
    lock = {t \in {"tick", "render"} :
              \/ t = "tick" /\ tickPc # "wait"
              \/ t = "render" /\ renderPc # "wait"}

\* C15: no task asks for the lock while it holds it and every step releases
\* it at its end, so some step is possible in every state, a closure under
\* way reaches its end, start_game returns, and a streaming task gets the
\* lock again and again.
C15_LockDiscipline ==
    /\ [](LockHeldByRunning /\ Cardinality(lock) <= 1 /\ ENABLED Next)
    /\ [](~CallerIdle => MutexFree)
    /\ (tickPc # "wait") ~> (tickPc = "wait" /\ "tick" \notin lock)
    /\ (renderPc # "wait") ~> (renderPc = "wait" /\ "render" \notin lock)
    /\ (~CallerIdle) ~> CallerIdle
    /\ (tickLoops.live > 0) ~> ("tick" \in lock)
    /\ (renderLoops.live > 0) ~> ("render" \in lock)

\* C15 witness: with two tick loops and two render loops streaming, a render
\* closure holds the lock after a tick step has released it
C15_Witness ==
    /\ tickLoops.live = 2 /\ renderLoops.live = 2
    /\ lock = {"render"}
    /\ drawLog # <<>>

\* C16: no closure starts or runs while start_game is between its lock
\* acquisitions, so what a tick or render step finds under the lock is never
\* a half-initialized session: not on_play with lose, and not a session
\* whose caller has reset the bag but not yet the board.
C16_StartIsAtomic ==
    /\ (tickPc # "wait" \/ renderPc # "wait") => callerPc = "idle"
    /\ (tickPc # "wait" \/ renderPc # "wait" \/ lastOp \in {"tick", "render"}) =>
          (pre.lose => ~pre.on_play)
    /\ callerPc # "idle" => (lock = {} /\ lastOp = "busy")

\* C16 witness: a tick closure runs after a start_game call made in Lost
\* while loops were live; it finds on_play set, lose cleared, the board reset
\* and the piece of the lost game still recorded
C16_Witness ==
    /\ tickPc = "match" /\ starts = 2
    /\ pre.on_play /\ ~pre.lose
    /\ AllEmpty(pre.tetris_board)
    /\ pre.current_mino # None
    /\ ~valid_mino(pre.tetris_board, pre.current_mino, pre.current_position)

\* C17: a render step leaves the session as it found it, whether or not it
\* calls the renderer; a render step that follows a render step with no tick
\* step, start_game or end_game between them makes the same call with the
\* same flattened board and the same dimensions (or, like it, no call).
C17_RenderReadOnly ==
    /\ (renderPc # "wait" \/ lastOp = "render") => game_info = pre
    /\ (renderPc = "release" /\ renderHist.same) => rendered = renderHist.prev

\* C17 witness: two render steps in a row both passed a board holding a piece
C17_Witness ==
    /\ renderPc = "release" /\ renderHist.same
    /\ rendered.calls = 1 /\ renderHist.prev.calls = 1
    /\ \E k \in DOMAIN rendered.args[1].cells : rendered.args[1].cells[k] # 0

\* C18: between operations, on_play with current_mino = Some(p) implies
\* that the board holds p's footprint at current_position.
C18_PieceOnBoardWhilePlaying ==
    (Quiescent /\ game_info.on_play /\ game_info.current_mino # None) =>
        FootprintOnBoard(game_info.tetris_board, game_info.current_mino,
                         game_info.current_position)

\* the recorded piece is on the board
PieceOnBoard ==
    /\ game_info.current_mino # None
    /\ FootprintOnBoard(game_info.tetris_board, game_info.current_mino,
                        game_info.current_position)

Lost == ~game_info.on_play /\ game_info.lose

\* C19: after every start_game call, unless the caller calls start_game or
\* end_game again, the session eventually has the recorded piece on the
\* board or is Lost.
C19_StartedGameProgresses ==
    (lastOp = "start") ~>
        (PieceOnBoard \/ Lost \/ callerPc # "idle" \/ lastOp = "end")

\* C20: whatever is called afterwards, the piece recorded by the first draw
\* stays recorded: get_mino is called at most once in the lifetime of a
\* Model, current_mino is None before that call and Some of its result in
\* every state after it.
C20_PieceNeverReset ==
    /\ Len(drawLog) <= 1
    /\ drawLog = <<>> => game_info.current_mino = None
    /\ drawLog # <<>> => game_info.current_mino = drawLog[1]

\* C20 witness: a tick step ran after a second start_game call and drew
\* nothing from the bag that call had emptied
C20_Witness ==
    /\ starts = 2 /\ ticked /\ lastOp = "tick"
    /\ drawn = None /\ Len(drawLog) = 1
    /\ game_info.current_bag = <<>>
    /\ game_info.on_play

====
